---- MODULE Spec2Model ----
(***************************************************************************)
(* A model of the extract tool (packages/core/src/tools/extract.ts):       *)
(* language detection, the comment extractor, the output formatters and    *)
(* ExtractToolInvocation.execute.                                          *)
(*                                                                         *)
(* A JavaScript string is a sequence of one-character strings, so that     *)
(* split, trim, extname, toLowerCase and the regular expressions are       *)
(* computed character by character.                                        *)
(***************************************************************************)
EXTENDS Integers, Sequences, FiniteSets, TLC

VARIABLES
  params,        \* this.params of the invocation
  aborted,       \* _signal.aborted
  pc,            \* position of execute: start, validate, read, await, format, done
  files,         \* execute's local `files`
  resolvedFiles, \* execute's local `resolvedFiles`
  results,       \* execute's local `results`
  ret,           \* what execute returned (NotReturned until it returns)
  escaped,       \* an exception left execute (the promise rejected)
  wsLog,         \* the paths handed to isPathWithinWorkspace, in call order
  wsVerdicts,    \* what isPathWithinWorkspace answered, in call order
  readLog,       \* the paths handed to processSingleFileContent, in call order
  readOutcome,   \* what each read of readLog came back with, in completion order
  pending,       \* number of reads started and not yet completed
  langLog,       \* the language handed to the extractor, per extracted file
  fmtLog,        \* the collections handed to the formatter, in call order
  abortedAtRead, \* per started read: whether the signal was aborted when it started
  excLog,        \* the exceptions raised inside execute, with the place of each
  fnArg,         \* pure-function harness: the drawn input
  fnOut          \* pure-function harness: the function's result (Absent before)

vars == <<params, aborted, pc, files, resolvedFiles, results, ret, escaped,
          wsLog, wsVerdicts, readLog, readOutcome, pending, langLog, fmtLog,
          abortedAtRead, excLog, fnArg, fnOut>>

execVars == <<params, aborted, pc, files, resolvedFiles, results, ret, escaped,
              wsLog, wsVerdicts, readLog, readOutcome, pending, langLog, fmtLog,
              abortedAtRead, excLog>>

fnVars == <<fnArg, fnOut>>

\* ------------------------------------------------------------ bounds

\* Longest `files` array of a request.
MaxFiles == 2

\* Most segments (code line, comment, comment block) of a drawn source text.
MaxSegs == 3

\* Most lines of a drawn text of declarations.
MaxLines == 2

\* Most lines of a drawn text of comment markers, scanned line by line.
MaxScan == 3

\* ------------------------------------------------------------ values

\* undefined (or null), where the defined values are strings of the model.
NoValue == "undefined"

\* An optional property whose value is a sequence (a path, an array): absent, or
\* holding v.
Absent == <<>>
Present(v) == <<v>>

\* ------------------------------------------------------------ strings

NL == "\n"

\* What String.prototype.trim removes (of the characters the model draws).
WhiteSpace == {" ", "\t", NL}

RECURSIVE TrimStart(_)
TrimStart(s) ==
  IF s # <<>> /\ Head(s) \in WhiteSpace THEN TrimStart(Tail(s)) ELSE s

RECURSIVE TrimEnd(_)
TrimEnd(s) ==
  IF s # <<>> /\ s[Len(s)] \in WhiteSpace
  THEN TrimEnd(SubSeq(s, 1, Len(s) - 1))
  ELSE s

\* String.prototype.trim
Trim(s) == TrimEnd(TrimStart(s))

\* s.startsWith(p)
StartsWith(s, p) == Len(s) >= Len(p) /\ SubSeq(s, 1, Len(p)) = p

\* s.indexOf(p) + 1: the first position where p occurs in s, 0 when it does not.
IndexOf(s, p) ==
  LET hits == {i \in 1..(Len(s) - Len(p) + 1) : SubSeq(s, i, i + Len(p) - 1) = p}
  IN IF hits = {} THEN 0 ELSE CHOOSE i \in hits : \A j \in hits : i <= j

\* s.lastIndexOf(p) + 1
LastIndexOf(s, p) ==
  LET hits == {i \in 1..(Len(s) - Len(p) + 1) : SubSeq(s, i, i + Len(p) - 1) = p}
  IN IF hits = {} THEN 0 ELSE CHOOSE i \in hits : \A j \in hits : i >= j

\* The rest of s from position i on.
From(s, i) == SubSeq(s, i, Len(s))

\* The pieces of s between the occurrences of the character c.
RECURSIVE SplitBy(_, _)
SplitBy(s, c) ==
  LET k == IndexOf(s, <<c>>)
  IN IF k = 0 THEN <<s>>
     ELSE <<SubSeq(s, 1, k - 1)>> \o SplitBy(From(s, k + 1), c)

\* content.split('\n'): one piece (the whole string, possibly empty) when the
\* string holds no line break.
Split(s) == SplitBy(s, NL)

\* lines.join('\n')
RECURSIVE Join(_)
Join(ls) ==
  IF ls = <<>> THEN <<>>
  ELSE IF Len(ls) = 1 THEN ls[1]
  ELSE ls[1] \o <<NL>> \o Join(Tail(ls))

\* String.prototype.toLowerCase, on the letters file extensions are written with.
LowerOf(c) ==
  CASE c = "J" -> "j" [] c = "S" -> "s" [] c = "X" -> "x" [] c = "T" -> "t"
    [] c = "P" -> "p" [] c = "Y" -> "y" [] c = "A" -> "a" [] c = "V" -> "v"
    [] c = "G" -> "g" [] c = "O" -> "o" [] OTHER -> c

ToLowerCase(s) == [i \in 1..Len(s) |-> LowerOf(s[i])]

\* ------------------------------------------------------------ paths

SEP == "/"

\* The segments of a path with "" and "." dropped and ".." applied.
RECURSIVE NormalizeSegs(_, _)
NormalizeSegs(segs, acc) ==
  IF segs = <<>> THEN acc
  ELSE LET g == Head(segs)
       IN IF g = <<>> \/ g = <<".">> THEN NormalizeSegs(Tail(segs), acc)
          ELSE IF g = <<".", ".">>
          THEN NormalizeSegs(Tail(segs),
                 IF acc = <<>> THEN acc ELSE SubSeq(acc, 1, Len(acc) - 1))
          ELSE NormalizeSegs(Tail(segs), Append(acc, g))

RECURSIVE JoinSegs(_)
JoinSegs(segs) ==
  IF segs = <<>> THEN <<>> ELSE <<SEP>> \o Head(segs) \o JoinSegs(Tail(segs))

\* path.resolve(base, file) for an absolute base: an absolute file stands alone,
\* a relative one is appended to base; the result is normalized.
Resolve(base, file) ==
  LET whole == IF StartsWith(file, <<SEP>>) THEN file ELSE base \o <<SEP>> \o file
      segs == NormalizeSegs(SplitBy(whole, SEP), <<>>)
  IN IF segs = <<>> THEN <<SEP>> ELSE JoinSegs(segs)

\* path.extname: from the last "." of the last path component on; "" when that
\* component has no "." or only a leading one.
ExtName(p) ==
  LET b == From(p, LastIndexOf(p, <<SEP>>) + 1)
      d == LastIndexOf(b, <<".">>)
  IN IF d <= 1 \/ b = <<".", ".">> THEN <<>> ELSE From(b, d)

\* this.config.getTargetDir(), which is also the workspace root.
TargetDir == <<SEP, "w">>

\* WorkspaceContext.isPathWithinWorkspace: the root itself or a path below it.
IsPathWithinWorkspace(absolutePath) ==
  absolutePath = TargetDir \/ StartsWith(absolutePath, TargetDir \o <<SEP>>)

\* makeRelative(filePath, targetDir) for a path below targetDir ("." for the root).
MakeRelative(filePath) ==
  IF filePath = TargetDir THEN <<".">>
  ELSE IF StartsWith(filePath, TargetDir \o <<SEP>>)
  THEN From(filePath, Len(TargetDir) + 2)
  ELSE filePath

\* ------------------------------------------------------------ languages

Languages == {"javascript", "typescript", "python", "java", "go"}

\* detectLanguage with a wrong case label: `.py` missing (a mutant).
DetectLanguageNoPy(filePath) ==
  LET ext == ToLowerCase(ExtName(filePath))
  IN CASE ext \in {<<".", "j", "s">>, <<".", "j", "s", "x">>} -> "javascript"
       [] ext \in {<<".", "t", "s">>, <<".", "t", "s", "x">>} -> "typescript"
       [] ext = <<".", "j", "a", "v", "a">> -> "java"
       [] ext = <<".", "g", "o">> -> "go"
       [] OTHER -> NoValue

\* detectLanguage
DetectLanguage(filePath) ==
  LET ext == ToLowerCase(ExtName(filePath))
  IN CASE ext \in {<<".", "j", "s">>, <<".", "j", "s", "x">>} -> "javascript"
       [] ext \in {<<".", "t", "s">>, <<".", "t", "s", "x">>} -> "typescript"
       [] ext = <<".", "p", "y">> -> "python"
       [] ext = <<".", "j", "a", "v", "a">> -> "java"
       [] ext = <<".", "g", "o">> -> "go"
       [] OTHER -> NoValue

\* a || b on values of which NoValue and "" are the falsy ones
Or(a, b) == IF a \in {NoValue, ""} THEN b ELSE a

\* this.params.language || detectLanguage(filePath) || 'javascript'
PickLanguage(paramLanguage, filePath) ==
  Or(Or(paramLanguage, DetectLanguage(filePath)), "javascript")

\* ------------------------------------------------------------ regular expressions

\* The regular expressions of extractComments have two shapes, over a set `alts`
\* of literal alternatives (one literal, or the two triple quotes):
\*   markerRest: the leftmost ALT followed by a greedy capture of the rest of the line
\*   lazyUntil:  a lazy capture from the start of the line up to the first ALT
\* `captureAlt` says whether ALT is itself a capture group (it then is group 1 of
\* markerRest and group 2 of lazyUntil).  A line holds no line break, so the dot
\* matches every character of it.
Rx(shape, alts, captureAlt) ==
  [shape |-> shape, alts |-> alts, captureAlt |-> captureAlt]

\* The leftmost position of the line where one of the alternatives occurs, 0 if none.
FirstAlt(line, alts) ==
  LET hits == {IndexOf(line, a) : a \in alts} \ {0}
  IN IF hits = {} THEN 0 ELSE CHOOSE i \in hits : \A j \in hits : i <= j

\* The alternative that occurs at position k.
AltAt(line, alts, k) ==
  CHOOSE a \in alts : SubSeq(line, k, k + Len(a) - 1) = a

\* A match array: g[0] the matched text, g[1], g[2] the capture groups.
Groups(gs) == [ok |-> TRUE, g |-> [i \in 0..(Len(gs) - 1) |-> gs[i + 1]]]

\* The null of a failed match.
NoMatch == [ok |-> FALSE]

\* line.match(rx)
Match(line, rx) ==
  LET k == FirstAlt(line, rx.alts)
  IN IF k = 0 THEN NoMatch
     ELSE LET a == AltAt(line, rx.alts, k)
              rest == From(line, k + Len(a))
              pre == SubSeq(line, 1, k - 1)
          IN IF rx.shape = "markerRest"
             THEN IF rx.captureAlt
                  THEN Groups(<<a \o rest, a, rest>>)
                  ELSE Groups(<<a \o rest, rest>>)
             ELSE IF rx.captureAlt
                  THEN Groups(<<pre \o a, pre, a>>)
                  ELSE Groups(<<pre \o a, pre>>)

\* ------------------------------------------------------------ extractComments

SLASHES == <<"/", "/">>
OPEN_C == <<"/", "*">>
CLOSE_C == <<"*", "/">>
HASH == <<"#">>
TRIPLE_S == <<"'", "'", "'">>
TRIPLE_D == <<"\"", "\"", "\"">>

CStyleComments ==
  [known |-> TRUE,
   singleLineComment |-> Rx("markerRest", {SLASHES}, FALSE),
   multiLineCommentStart |-> Rx("markerRest", {OPEN_C}, FALSE),
   multiLineCommentEnd |-> Rx("lazyUntil", {CLOSE_C}, FALSE)]

PythonComments ==
  [known |-> TRUE,
   singleLineComment |-> Rx("markerRest", {HASH}, FALSE),
   multiLineCommentStart |-> Rx("markerRest", {TRIPLE_S, TRIPLE_D}, TRUE),
   multiLineCommentEnd |-> Rx("lazyUntil", {TRIPLE_S, TRIPLE_D}, TRUE)]

\* The switch with a default branch that takes the C-style patterns instead of
\* returning [] (a mutant).
CommentPatternsWithDefault(language) ==
  IF language = "python" THEN PythonComments ELSE CStyleComments

\* The switch over `language` of extractComments; its default branch returns [].
CommentPatterns(language) ==
  CASE language \in {"javascript", "typescript"} -> CStyleComments
    [] language = "python" -> PythonComments
    [] language = "java" -> CStyleComments
    [] language = "go" -> CStyleComments
    [] OTHER -> [known |-> FALSE]

\* `Comment at line ${n}`
CommentName(n) == <<"Comment at line ", n>>

\* An element that loses its line number (a mutant).
ElementWithoutLine(type, name, line, content) ==
  [type |-> type, name |-> name, line |-> 0, content |-> content]

Element(type, name, line, content) ==
  [type |-> type, name |-> name, line |-> line, content |-> content]

\* A scan that starts inside a block once a file has been extracted before, as
\* it would with the block state kept outside extractComments (a mutant).
ScanInitCarried ==
  [comments |-> <<>>, inMultiLineComment |-> results # <<>>,
   multiLineContent |-> <<>>, multiLineStartLine |-> 0]

\* The loop variables of extractComments before the first line.
ScanInit ==
  [comments |-> <<>>, inMultiLineComment |-> FALSE,
   multiLineContent |-> <<>>, multiLineStartLine |-> 0]

\* The iteration that tests the single-line pattern whether or not a block is
\* open (a mutant).
ScanLineAlwaysSingle(st, line, lineNumber, rx) ==
  LET singleLineMatch == Match(line, rx.singleLineComment)
      s1 == IF singleLineMatch.ok
            THEN [st EXCEPT !.comments = Append(@, Element("single-line-comment",
                      CommentName(lineNumber), lineNumber,
                      Trim(singleLineMatch.g[1])))]
            ELSE st
  IN IF st.inMultiLineComment
     THEN LET content == st.multiLineContent \o <<NL>> \o line
          IN IF Match(line, rx.multiLineCommentEnd).ok
             THEN [s1 EXCEPT !.inMultiLineComment = FALSE,
                             !.comments = Append(@, Element("multi-line-comment",
                                 CommentName(st.multiLineStartLine),
                                 st.multiLineStartLine, content)),
                             !.multiLineContent = <<>>]
             ELSE [s1 EXCEPT !.multiLineContent = content]
     ELSE LET multiLineStartMatch == Match(line, rx.multiLineCommentStart)
          IN IF ~multiLineStartMatch.ok THEN s1
             ELSE LET content == multiLineStartMatch.g[1]
                  IN IF Match(line, rx.multiLineCommentEnd).ok
                     THEN [s1 EXCEPT !.inMultiLineComment = FALSE,
                                     !.multiLineStartLine = lineNumber,
                                     !.comments = Append(@, Element("multi-line-comment",
                                         CommentName(lineNumber), lineNumber, content)),
                                     !.multiLineContent = <<>>]
                     ELSE [s1 EXCEPT !.inMultiLineComment = TRUE,
                                     !.multiLineStartLine = lineNumber,
                                     !.multiLineContent = content]

\* One iteration of the loop of extractComments, on `line` numbered lineNumber.
ScanLine(st, line, lineNumber, rx) ==
  IF st.inMultiLineComment
  THEN LET content == st.multiLineContent \o <<NL>> \o line
       IN IF Match(line, rx.multiLineCommentEnd).ok
          THEN [st EXCEPT !.inMultiLineComment = FALSE,
                          !.comments = Append(@, Element("multi-line-comment",
                              CommentName(st.multiLineStartLine),
                              st.multiLineStartLine, content)),
                          !.multiLineContent = <<>>]
          ELSE [st EXCEPT !.multiLineContent = content]
  ELSE LET singleLineMatch == Match(line, rx.singleLineComment)
           s1 == IF singleLineMatch.ok
                 THEN [st EXCEPT !.comments = Append(@, Element("single-line-comment",
                           CommentName(lineNumber), lineNumber,
                           Trim(singleLineMatch.g[1])))]
                 ELSE st
           multiLineStartMatch == Match(line, rx.multiLineCommentStart)
       IN IF ~multiLineStartMatch.ok THEN s1
          ELSE LET content == multiLineStartMatch.g[1]
               IN IF Match(line, rx.multiLineCommentEnd).ok
                  THEN [s1 EXCEPT !.inMultiLineComment = FALSE,
                                  !.multiLineStartLine = lineNumber,
                                  !.comments = Append(@, Element("multi-line-comment",
                                      CommentName(lineNumber), lineNumber, content)),
                                  !.multiLineContent = <<>>]
                  ELSE [s1 EXCEPT !.inMultiLineComment = TRUE,
                                  !.multiLineStartLine = lineNumber,
                                  !.multiLineContent = content]

RECURSIVE ScanLines(_, _, _, _)
ScanLines(st, lines, i, rx) ==
  IF i > Len(lines) THEN st
  ELSE ScanLines(ScanLine(st, lines[i], i, rx), lines, i + 1, rx)

\* extractComments(content, language)
ExtractComments(content, language) ==
  LET rx == CommentPatterns(language)
  IN IF ~rx.known THEN <<>>
     ELSE ScanLines(ScanInit, Split(content), 1, rx).comments

\* ------------------------------------------------------------ pattern matching

\* The patterns of the function, class, import, variable and type extractors are
\* regular expressions proper; they are kept as syntax trees and matched the way
\* the JavaScript engine matches: by backtracking, the alternatives in order,
\* greedy repetition trying the longest first.

\* a-zA-Z
Letters ==
  {"a", "b", "c", "d", "e", "f", "g", "h", "i", "j", "k", "l", "m", "n", "o", "p",
   "q", "r", "s", "t", "u", "v", "w", "x", "y", "z",
   "A", "B", "C", "D", "E", "F", "G", "H", "I", "J", "K", "L", "M", "N", "O", "P",
   "Q", "R", "S", "T", "U", "V", "W", "X", "Y", "Z"}

\* \w, which is also [a-zA-Z0-9_]
WordChars == Letters \cup {"0", "1", "2", "3", "4", "5", "6", "7", "8", "9", "_"}

\* The nodes of a pattern.
Lit(text) == [t |-> "lit", s |-> text]                 \* the characters of text
In(chars) == [t |-> "in", cs |-> chars]                \* [...] and \s, \w
NotIn(chars) == [t |-> "notin", cs |-> chars]          \* [^...]
AnyChar == [t |-> "notin", cs |-> {NL}]                    \* the dot
Cat(parts) == [t |-> "cat", ps |-> parts]              \* one after the other
Star(r) == [t |-> "star", r |-> r]                     \* r*, greedy
Plus(r) == [t |-> "cat", ps |-> <<r, [t |-> "star", r |-> r]>>]   \* r+
Opt(r) == [t |-> "opt", r |-> r]                       \* r?, greedy
Alt(choices) == [t |-> "alt", as |-> choices]          \* a|b|...
Group(n, r) == [t |-> "group", n |-> n, r |-> r]       \* the n-th capture group
\* and [t |-> "bol"] for ^, [t |-> "wb"] for \b

\* \s+ and \s*
Spaces == Plus(In(WhiteSpace))
OptSpaces == Star(In(WhiteSpace))

\* The most capture groups a pattern has (the variable pattern of java).
MaxGroup == 4

\* The capture groups before a match: all undefined.
NoCaptures == [k \in 1..MaxGroup |-> Absent]

\* Whether position i of the line (the character before i and the one at i) is a
\* word boundary.
AtWordBoundary(line, i) ==
  LET before == i > 1 /\ line[i - 1] \in WordChars
      after == i <= Len(line) /\ line[i] \in WordChars
  IN before # after

\* The ways `r` matches the line from position i on, given the captures so far,
\* in the engine's order of preference: each a position after the match and the
\* captures then.  RunAll continues every way of `ways` with r; RunCat matches
\* the parts one after the other; RunAlt tries the choices in order.
RECURSIVE Run(_, _, _, _)
RECURSIVE RunAll(_, _, _)
RECURSIVE RunCat(_, _, _, _)
RECURSIVE RunAlt(_, _, _, _)

RunAll(r, line, ways) ==
  IF ways = <<>> THEN <<>>
  ELSE Run(r, line, Head(ways).i, Head(ways).caps) \o RunAll(r, line, Tail(ways))

RunCat(parts, line, i, caps) ==
  IF parts = <<>> THEN <<[i |-> i, caps |-> caps]>>
  ELSE LET firsts == Run(Head(parts), line, i, caps)
           rest == [t |-> "cat", ps |-> Tail(parts)]
       IN RunAll(rest, line, firsts)

RunAlt(choices, line, i, caps) ==
  IF choices = <<>> THEN <<>>
  ELSE Run(Head(choices), line, i, caps) \o RunAlt(Tail(choices), line, i, caps)

Run(r, line, i, caps) ==
  CASE r.t = "lit" ->
         IF i + Len(r.s) - 1 <= Len(line) /\ SubSeq(line, i, i + Len(r.s) - 1) = r.s
         THEN <<[i |-> i + Len(r.s), caps |-> caps]>> ELSE <<>>
    [] r.t = "in" ->
         IF i <= Len(line) /\ line[i] \in r.cs
         THEN <<[i |-> i + 1, caps |-> caps]>> ELSE <<>>
    [] r.t = "notin" ->
         IF i <= Len(line) /\ line[i] \notin r.cs
         THEN <<[i |-> i + 1, caps |-> caps]>> ELSE <<>>
    [] r.t = "cat" -> RunCat(r.ps, line, i, caps)
    [] r.t = "star" ->
         LET once == Run(r.r, line, i, caps)
             moved == SelectSeq(once, LAMBDA w : w.i > i)
         IN RunAll(r, line, moved) \o <<[i |-> i, caps |-> caps]>>
    [] r.t = "opt" -> Run(r.r, line, i, caps) \o <<[i |-> i, caps |-> caps]>>
    [] r.t = "alt" -> RunAlt(r.as, line, i, caps)
    [] r.t = "group" ->
         LET inner == Run(r.r, line, i, caps)
         IN [k \in 1..Len(inner) |->
               [i |-> inner[k].i,
                caps |-> [inner[k].caps EXCEPT ![r.n] =
                            Present(SubSeq(line, i, inner[k].i - 1))]]]
    [] r.t = "bol" -> IF i = 1 THEN <<[i |-> i, caps |-> caps]>> ELSE <<>>
    [] r.t = "wb" ->
         IF AtWordBoundary(line, i) THEN <<[i |-> i, caps |-> caps]>> ELSE <<>>

\* The match of the pattern that starts at `start` or, failing that, at the next
\* position where there is one.
RECURSIVE SearchFrom(_, _, _)
SearchFrom(line, pattern, start) ==
  IF start > Len(line) + 1 THEN NoMatch
  ELSE LET ways == Run(pattern, line, start, NoCaptures)
       IN IF ways = <<>> THEN SearchFrom(line, pattern, start + 1)
          ELSE [ok |-> TRUE,
                g |-> [k \in 0..MaxGroup |->
                         IF k = 0 THEN Present(SubSeq(line, start, ways[1].i - 1))
                         ELSE ways[1].caps[k]]]

\* line.match(pattern) for a pattern tree: the leftmost match, g[0] the matched
\* text and g[k] the k-th capture group, each Present or (undefined, as is a
\* group the pattern does not have) Absent.
MatchPattern(line, pattern) == SearchFrom(line, pattern, 1)

\* Whether a capture is truthy: defined and not the empty string.
Truthy(c) == c # Absent /\ c[1] # <<>>

\* The text of a capture, "" for an undefined one: what a falsy name is left as.
TextOf(c) == IF c = Absent THEN <<>> ELSE c[1]

\* ------------------------------------------------------------ the line extractors

\* [a-zA-Z_$][a-zA-Z0-9_$]* and [a-zA-Z_][a-zA-Z0-9_]*
Identifier ==
  Cat(<<In(Letters \cup {"_", "$"}), Star(In(WordChars \cup {"$"}))>>)
PlainIdentifier == Cat(<<In(Letters \cup {"_"}), Star(In(WordChars))>>)

\* A parenthesis, anything but a closing one, a closing parenthesis.
Parens == Cat(<<Lit(<<"(">>), Star(NotIn({")"})), Lit(<<")">>)>>)

\* ['"](.*)['"]
Quoted(n) == Cat(<<In({"'", "\""}), Group(n, Star(AnyChar)), In({"'", "\""})>>)

\* A known language's list of patterns, and the default branch of the switches.
Known(patterns) == [known |-> TRUE, list |-> patterns]
Unknown == [known |-> FALSE, list |-> <<>>]

\* The switch over `language` of extractFunctions.
FunctionPatterns(language) ==
  CASE language \in {"javascript", "typescript"} -> Known(<<
         Cat(<<Lit(<<"f", "u", "n", "c", "t", "i", "o", "n">>), Spaces, Group(1, Identifier), OptSpaces, Parens,
               OptSpaces, Lit(<<"{">>)>>),
         Cat(<<Group(1, Identifier), OptSpaces, Lit(<<"=">>), OptSpaces,
               Lit(<<"f", "u", "n", "c", "t", "i", "o", "n">>), OptSpaces, Parens, OptSpaces, Lit(<<"{">>)>>),
         Cat(<<Group(1, Identifier), OptSpaces, Lit(<<"=">>), OptSpaces, Parens,
               OptSpaces, Lit(<<"=", ">">>)>>),
         Cat(<<Group(1, Identifier), OptSpaces, Parens, OptSpaces, Lit(<<"{">>)>>),
         Cat(<<[t |-> "wb"], Group(1, Identifier), OptSpaces, Lit(<<":">>), OptSpaces,
               Lit(<<"f", "u", "n", "c", "t", "i", "o", "n">>), OptSpaces, Parens, OptSpaces, Lit(<<"{">>)>>)>>)
    [] language = "python" -> Known(<<
         Cat(<<Lit(<<"d", "e", "f">>), Spaces, Group(1, PlainIdentifier), OptSpaces, Parens,
               OptSpaces, Lit(<<":">>)>>)>>)
    [] language = "java" -> Known(<<
         Cat(<<Opt(Group(1, Alt(<<Lit(<<"p", "u", "b", "l", "i", "c">>), Lit(<<"p", "r", "i", "v", "a", "t", "e">>),
                                  Lit(<<"p", "r", "o", "t", "e", "c", "t", "e", "d">>)>>))),
               OptSpaces, Opt(Group(2, Lit(<<"s", "t", "a", "t", "i", "c">>))), OptSpaces,
               Plus(In(WordChars)), Spaces, Group(3, Identifier), OptSpaces, Parens,
               OptSpaces, Lit(<<"{">>)>>)>>)
    [] language = "go" -> Known(<<
         Cat(<<Lit(<<"f", "u", "n", "c">>), Spaces, Group(1, PlainIdentifier), OptSpaces, Parens,
               OptSpaces, Star(In(WordChars))>>)>>)
    [] OTHER -> Unknown

\* The switch over `language` of extractClasses.
ClassPatterns(language) ==
  CASE language \in {"javascript", "typescript"} -> Known(<<
         Cat(<<Lit(<<"c", "l", "a", "s", "s">>), Spaces, Group(1, Identifier)>>)>>)
    [] language = "python" -> Known(<<
         Cat(<<Lit(<<"c", "l", "a", "s", "s">>), Spaces, Group(1, PlainIdentifier), OptSpaces,
               Opt(Lit(<<"(">>)), Star(AnyChar), Opt(Lit(<<")">>)), OptSpaces,
               Lit(<<":">>)>>)>>)
    [] language = "java" -> Known(<<
         Cat(<<Opt(Group(1, Alt(<<Lit(<<"p", "u", "b", "l", "i", "c">>), Lit(<<"p", "r", "i", "v", "a", "t", "e">>)>>))),
               OptSpaces, Lit(<<"c", "l", "a", "s", "s">>), Spaces, Group(2, Identifier)>>)>>)
    [] language = "go" -> Known(<<
         Cat(<<Lit(<<"t", "y", "p", "e">>), Spaces, Group(1, PlainIdentifier), Spaces,
               Lit(<<"s", "t", "r", "u", "c", "t">>), OptSpaces, Lit(<<"{">>)>>)>>)
    [] OTHER -> Unknown

\* The switch over `language` of extractImports.
ImportPatterns(language) ==
  CASE language \in {"javascript", "typescript"} -> Known(<<
         Cat(<<Lit(<<"i", "m", "p", "o", "r", "t">>), Spaces, Star(AnyChar), Lit(<<"f", "r", "o", "m">>), Spaces,
               Quoted(1)>>),
         Cat(<<Lit(<<"i", "m", "p", "o", "r", "t">>), Spaces, Quoted(1)>>),
         Cat(<<Lit(<<"e", "x", "p", "o", "r", "t">>), Spaces,
               Opt(Group(1, Cat(<<Lit(<<"d", "e", "f", "a", "u", "l", "t">>), Spaces>>))),
               Group(2, Alt(<<Lit(<<"c", "l", "a", "s", "s">>), Lit(<<"f", "u", "n", "c", "t", "i", "o", "n">>), Lit(<<"c", "o", "n", "s", "t">>),
                              Lit(<<"l", "e", "t">>), Lit(<<"v", "a", "r">>)>>)),
               Spaces, Group(3, Identifier)>>),
         Cat(<<Lit(<<"e", "x", "p", "o", "r", "t">>), Spaces, Lit(<<"{">>), Star(AnyChar), Lit(<<"}">>)>>),
         Cat(<<Lit(<<"r", "e", "q", "u", "i", "r", "e", "(">>), Quoted(1), Lit(<<")">>)>>)>>)
    [] language = "python" -> Known(<<
         Cat(<<Lit(<<"i", "m", "p", "o", "r", "t">>), Spaces,
               Group(1, Cat(<<In(Letters \cup {"_"}),
                              Star(In(WordChars \cup {"."}))>>))>>),
         Cat(<<Lit(<<"f", "r", "o", "m">>), Spaces,
               Group(1, Cat(<<In(Letters \cup {"_"}),
                              Star(In(WordChars \cup {"."}))>>)),
               Spaces, Lit(<<"i", "m", "p", "o", "r", "t">>), Spaces, Star(AnyChar)>>)>>)
    [] language = "java" -> Known(<<
         Cat(<<Lit(<<"i", "m", "p", "o", "r", "t">>), Spaces,
               Group(1, Plus(In(WordChars \cup {".", "*"})))>>)>>)
    [] language = "go" -> Known(<<
         Cat(<<Lit(<<"i", "m", "p", "o", "r", "t">>), Spaces, Quoted(1)>>),
         Cat(<<Lit(<<"i", "m", "p", "o", "r", "t">>), Spaces, Parens>>)>>)
    [] OTHER -> Unknown

\* The switch over `language` of extractVariables.
VariablePatterns(language) ==
  CASE language \in {"javascript", "typescript"} -> Known(<<
         Cat(<<Group(1, Alt(<<Lit(<<"c", "o", "n", "s", "t">>), Lit(<<"l", "e", "t">>), Lit(<<"v", "a", "r">>)>>)),
               Spaces, Group(2, Identifier)>>)>>)
    [] language = "python" -> Known(<<
         Cat(<<[t |-> "bol"], Group(1, PlainIdentifier), OptSpaces, Lit(<<"=">>)>>)>>)
    [] language = "java" -> Known(<<
         Cat(<<Opt(Group(1, Lit(<<"f", "i", "n", "a", "l">>))), OptSpaces,
               Opt(Group(2, Alt(<<Lit(<<"p", "u", "b", "l", "i", "c">>), Lit(<<"p", "r", "i", "v", "a", "t", "e">>),
                                  Lit(<<"p", "r", "o", "t", "e", "c", "t", "e", "d">>)>>))),
               OptSpaces, Plus(In(WordChars)), Spaces, Group(3, Identifier),
               OptSpaces, Group(4, Alt(<<Lit(<<"=">>), Lit(<<";">>)>>))>>)>>)
    [] language = "go" -> Known(<<
         Cat(<<Group(1, Alt(<<Lit(<<"v", "a", "r">>), Lit(<<"c", "o", "n", "s", "t">>)>>)), Spaces,
               Group(2, PlainIdentifier)>>),
         Cat(<<Group(1, PlainIdentifier), OptSpaces, Lit(<<":", "=">>)>>)>>)
    [] OTHER -> Unknown

\* {[^}]+}
Braced == Cat(<<Lit(<<"{">>), Plus(NotIn({"}"})), Lit(<<"}">>)>>)

\* The switch over `language` of extractTypes.
TypePatterns(language) ==
  CASE language = "javascript" -> Known(<<
         Cat(<<Lit(<<"@", "t", "y", "p", "e", "d", "e", "f">>), Spaces, Braced, Spaces, Group(1, Identifier)>>),
         Cat(<<Lit(<<"@", "p", "a", "r", "a", "m">>), Spaces, Braced, Spaces, Group(1, Identifier)>>)>>)
    [] language = "typescript" -> Known(<<
         Cat(<<Lit(<<"i", "n", "t", "e", "r", "f", "a", "c", "e">>), Spaces, Group(1, Identifier)>>),
         Cat(<<Lit(<<"t", "y", "p", "e">>), Spaces, Group(1, Identifier), OptSpaces,
               Lit(<<"=">>)>>),
         Cat(<<Lit(<<"e", "n", "u", "m">>), Spaces, Group(1, Identifier)>>)>>)
    [] language = "python" -> Known(<<
         Cat(<<Lit(<<"c", "l", "a", "s", "s">>), Spaces, Group(1, PlainIdentifier), OptSpaces,
               Opt(Lit(<<"(">>)), Star(AnyChar), Opt(Lit(<<")">>)), OptSpaces,
               Lit(<<":">>)>>),
         Cat(<<Lit(<<"f", "r", "o", "m">>), Spaces, Lit(<<"t", "y", "p", "i", "n", "g">>), Spaces, Lit(<<"i", "m", "p", "o", "r", "t">>),
               Spaces, Star(AnyChar)>>),
         Cat(<<Lit(<<"i", "m", "p", "o", "r", "t">>), Spaces, Lit(<<"t", "y", "p", "i", "n", "g">>)>>)>>)
    [] language = "java" -> Known(<<
         Cat(<<Lit(<<"i", "n", "t", "e", "r", "f", "a", "c", "e">>), Spaces, Group(1, Identifier)>>),
         Cat(<<Lit(<<"e", "n", "u", "m">>), Spaces, Group(1, Identifier)>>)>>)
    [] language = "go" -> Known(<<
         Cat(<<Lit(<<"t", "y", "p", "e">>), Spaces, Group(1, PlainIdentifier), Spaces,
               Group(2, Alt(<<Lit(<<"i", "n", "t", "e", "r", "f", "a", "c", "e">>), Lit(<<"s", "t", "r", "u", "c", "t">>)>>))>>)>>)
    [] OTHER -> Unknown

\* The loop without its break, the last matching pattern deciding (a mutant).
RECURSIVE LastMatching(_, _, _)
LastMatching(line, patterns, k) ==
  IF k > Len(patterns) THEN 0
  ELSE LET later == LastMatching(line, patterns, k + 1)
       IN IF later # 0 THEN later
          ELSE IF MatchPattern(line, patterns[k]).ok THEN k ELSE 0

\* The inner loop over the patterns with its break: the position in the list of
\* the first pattern, from position k on, that matches the line; 0 when none does.
RECURSIVE FirstMatching(_, _, _)
FirstMatching(line, patterns, k) ==
  IF k > Len(patterns) THEN 0
  ELSE IF MatchPattern(line, patterns[k]).ok THEN k
  ELSE FirstMatching(line, patterns, k + 1)

\* The outer loop over the lines: for each line from i on that is not skipped and
\* that a pattern matches, its number, its text and the match of the first pattern
\* that matches it.
RECURSIVE Hits(_, _, _, _)
Hits(lines, i, patterns, skipped) ==
  IF i > Len(lines) THEN <<>>
  ELSE LET k == IF i \in skipped THEN 0 ELSE FirstMatching(lines[i], patterns, 1)
       IN (IF k = 0 THEN <<>>
           ELSE <<[lineNumber |-> i, line |-> lines[i], pattern |-> k,
                   g |-> MatchPattern(lines[i], patterns[k]).g]>>)
          \o Hits(lines, i + 1, patterns, skipped)

\* The push guarded by `if (name)`: a hit whose name is empty leaves no element.
RECURSIVE PushNamed(_, _, _)
PushNamed(type, hits, names) ==
  IF hits = <<>> THEN <<>>
  ELSE (IF Head(names) # <<>>
        THEN <<Element(type, Head(names), Head(hits).lineNumber, Trim(Head(hits).line))>>
        ELSE <<>>)
       \o PushNamed(type, Tail(hits), Tail(names))

\* The name extractFunctions derives from a match.
FunctionName(language, g) ==
  CASE language \in {"javascript", "typescript"} ->
         IF Truthy(g[1]) /\ g[1][1] # <<"f", "u", "n", "c", "t", "i", "o", "n">> THEN g[1][1]
         ELSE IF Truthy(g[2]) THEN g[2][1]
         ELSE IF Truthy(g[3]) THEN g[3][1]
         ELSE <<>>
    [] language \in {"python", "go"} -> TextOf(g[1])
    [] language = "java" -> TextOf(g[3])
    [] OTHER -> <<>>

\* extractFunctions(content, language)
ExtractFunctions(content, language) ==
  LET ps == FunctionPatterns(language)
      hits == Hits(Split(content), 1, ps.list, {})
  IN IF ~ps.known THEN <<>>
     ELSE PushNamed("function", hits,
                    [k \in 1..Len(hits) |-> FunctionName(language, hits[k].g)])

\* The name extractClasses derives from a match: match[1] || match[2], or match[1].
ClassName(language, g) ==
  CASE language \in {"javascript", "typescript", "python", "java"} ->
         IF Truthy(g[1]) THEN g[1][1] ELSE TextOf(g[2])
    [] language = "go" -> TextOf(g[1])
    [] OTHER -> <<>>

\* extractClasses(content, language)
ExtractClasses(content, language) ==
  LET ps == ClassPatterns(language)
      hits == Hits(Split(content), 1, ps.list, {})
  IN IF ~ps.known THEN <<>>
     ELSE PushNamed("class", hits,
                    [k \in 1..Len(hits) |-> ClassName(language, hits[k].g)])

\* extractImports without its fallback to the trimmed line (a mutant).
ImportNameNoFallback(line, g) ==
  IF Truthy(g[1]) THEN g[1][1] ELSE IF Truthy(g[3]) THEN g[3][1] ELSE <<>>

\* The name extractImports derives from a match: match[1], else match[3], else the
\* trimmed line.
ImportName(line, g) ==
  LET importName == IF Truthy(g[1]) THEN g[1][1]
                    ELSE IF Truthy(g[3]) THEN g[3][1] ELSE <<>>
  IN IF importName = <<>> THEN Trim(line) ELSE importName

\* extractImports(content, language): every hit is pushed.
ExtractImports(content, language) ==
  LET ps == ImportPatterns(language)
      hits == Hits(Split(content), 1, ps.list, {})
  IN IF ~ps.known THEN <<>>
     ELSE [k \in 1..Len(hits) |->
             Element("import", ImportName(hits[k].line, hits[k].g),
                     hits[k].lineNumber, Trim(hits[k].line))]

\* The lines extractVariables passes over before it tests a pattern.
SkippedLines(lines) ==
  {i \in 1..Len(lines) :
     \/ StartsWith(Trim(lines[i]), <<"i", "m", "p", "o", "r", "t">>)
     \/ StartsWith(Trim(lines[i]), <<"f", "u", "n", "c", "t", "i", "o", "n">>)
     \/ StartsWith(Trim(lines[i]), <<"c", "l", "a", "s", "s">>)
     \/ StartsWith(Trim(lines[i]), <<"e", "x", "p", "o", "r", "t">>)}

\* The name extractVariables derives from a match.
VariableName(language, g) ==
  CASE language \in {"javascript", "typescript"} -> TextOf(g[2])
    [] language \in {"python", "go"} ->
         IF Truthy(g[2]) THEN g[2][1] ELSE TextOf(g[1])
    [] language = "java" -> TextOf(g[3])
    [] OTHER -> <<>>

\* extractVariables(content, language)
ExtractVariables(content, language) ==
  LET ps == VariablePatterns(language)
      lines == Split(content)
      hits == Hits(lines, 1, ps.list, SkippedLines(lines))
  IN IF ~ps.known THEN <<>>
     ELSE PushNamed("variable", hits,
                    [k \in 1..Len(hits) |-> VariableName(language, hits[k].g)])

\* The name extractTypes derives from a match: match[1], else the trimmed line.
TypeName(line, g) == IF Truthy(g[1]) THEN g[1][1] ELSE Trim(line)

\* extractTypes(content, language)
ExtractTypes(content, language) ==
  LET ps == TypePatterns(language)
      hits == Hits(Split(content), 1, ps.list, {})
  IN IF ~ps.known THEN <<>>
     ELSE PushNamed("type", hits,
                    [k \in 1..Len(hits) |-> TypeName(hits[k].line, hits[k].g)])

\* ------------------------------------------------------------ formatters

\* A formatter's output is the sequence of its lines, a line the sequence of the
\* pieces it is concatenated from; <<>> is an empty line.

\* The empty lines at the end of the output.
RECURSIVE DropEmptyTail(_)
DropEmptyTail(lines) ==
  IF lines # <<>> /\ lines[Len(lines)] = <<>>
  THEN DropEmptyTail(SubSeq(lines, 1, Len(lines) - 1))
  ELSE lines

\* output.trim(): the empty lines at the end go (every formatter ends a file's
\* block with one), and so does white space at the end of the last line, which only
\* a content line of formatAsList can carry. No output starts with white space.
TrimOutput(lines) ==
  LET ls == DropEmptyTail(lines)
  IN IF ls = <<>> THEN ls
     ELSE LET last == ls[Len(ls)]
          IN IF Len(last) = 2 /\ last[1] = "  "
             THEN [ls EXCEPT ![Len(ls)] = <<"  ", TrimEnd(last[2])>>]
             ELSE ls

RECURSIVE ListElements(_)
ListElements(elements) ==
  IF elements = <<>> THEN <<>>
  ELSE LET e == Head(elements)
       IN <<<<e.type, ": ", e.name, " (line ", e.line, ")">>>>
          \o (IF e.content # <<>> THEN <<<<"  ", e.content>>>> ELSE <<>>)
          \o ListElements(Tail(elements))

RECURSIVE ListFiles(_)
ListFiles(rs) ==
  IF rs = <<>> THEN <<>>
  ELSE LET r == Head(rs)
       IN <<<<"--- ", MakeRelative(r.filePath), " ---">>>>
          \o (IF Len(r.elements) = 0 THEN <<<<"No elements found">>>>
              ELSE ListElements(r.elements))
          \o <<<<>>>>
          \o ListFiles(Tail(rs))

\* formatAsList
FormatAsList(rs) == TrimOutput(ListFiles(rs))

\* The element types of `elements` in the order in which each is first seen: the
\* key order of elementsByType.
RECURSIVE TypesInOrder(_, _)
TypesInOrder(elements, seen) ==
  IF elements = <<>> THEN seen
  ELSE TypesInOrder(Tail(elements),
         IF \E i \in 1..Len(seen) : seen[i] = Head(elements).type
         THEN seen ELSE Append(seen, Head(elements).type))

RECURSIVE TreeEntries(_, _)
TreeEntries(elements, type) ==
  IF elements = <<>> THEN <<>>
  ELSE (IF Head(elements).type = type
        THEN <<<<"    ", Head(elements).name, " (line ", Head(elements).line, ")">>>>
        ELSE <<>>)
       \o TreeEntries(Tail(elements), type)

RECURSIVE TreeGroups(_, _)
TreeGroups(elements, types) ==
  IF types = <<>> THEN <<>>
  ELSE LET entries == TreeEntries(elements, Head(types))
       IN <<<<"  ", Head(types), " (", Len(entries), ")">>>> \o entries
          \o TreeGroups(elements, Tail(types))

RECURSIVE TreeFiles(_)
TreeFiles(rs) ==
  IF rs = <<>> THEN <<>>
  ELSE LET r == Head(rs)
       IN <<<<MakeRelative(r.filePath)>>>>
          \o (IF Len(r.elements) = 0 THEN <<<<"  (No elements found)">>>>
              ELSE TreeGroups(r.elements, TypesInOrder(r.elements, <<>>)))
          \o <<<<>>>>
          \o TreeFiles(Tail(rs))

\* formatAsTree
FormatAsTree(rs) == TrimOutput(TreeFiles(rs))

RECURSIVE SummaryFiles(_)
SummaryFiles(rs) ==
  IF rs = <<>> THEN <<>>
  ELSE <<<<MakeRelative(Head(rs).filePath), ": ", Len(Head(rs).elements), " elements">>>>
       \o SummaryFiles(Tail(rs))

\* totalElements counting the files instead of their elements (a mutant).
TotalElementsPerFile(rs) == Len(rs)

RECURSIVE TotalElements(_)
TotalElements(rs) ==
  IF rs = <<>> THEN 0 ELSE Len(Head(rs).elements) + TotalElements(Tail(rs))

\* formatAsSummary
FormatAsSummary(rs) ==
  TrimOutput(<<<<"Total elements extracted: ", TotalElements(rs)>>, <<>>>>
             \o SummaryFiles(rs))

\* JSON.stringify(results, null, 2): the text that parses back to `rs`.
JsonStringify(rs) == <<<<"JSON", rs>>>>

\* The switch over `format` of execute, `list` being the default.
FormatOutput(format, rs) ==
  CASE format = "json" -> JsonStringify(rs)
    [] format = "tree" -> FormatAsTree(rs)
    [] format = "summary" -> FormatAsSummary(rs)
    [] OTHER -> FormatAsList(rs)

\* ------------------------------------------------------------ execute: values

\* ToolErrorType
INVALID_TOOL_PARAMS == "invalid_tool_params"
PATH_NOT_IN_WORKSPACE == "path_not_in_workspace"
UNKNOWN == "unknown"

\* The extraction kinds of the requests: the extractor that keeps a state
\* across the lines of a text, and one of those that do not.
Kinds == {"comments", "functions"}

Formats == {"list", "tree", "json", "summary"}

\* The file names of the requests: two inside the workspace, one that leaves it.
A_JS == <<"a", ".", "j", "s">>
B_PY == <<"b", ".", "P", "Y">>
OUT_TS == <<".", ".", "/", "x", ".", "t", "s">>
FileNames == {A_JS, B_PY, OUT_TS}

\* The arrays of at most n file names.
RECURSIVE FileLists(_)
FileLists(n) ==
  IF n = 0 THEN {<<>>}
  ELSE LET shorter == FileLists(n - 1)
       IN shorter \cup {Append(l, f) : l \in {x \in shorter : Len(x) = n - 1},
                                        f \in FileNames}

\* The requests: `file` and `files` each set or not (`files` possibly empty),
\* `language` set or not, every format.
Requests ==
  [type : Kinds,
   file : {Absent, Present(A_JS)},
   files : {Absent} \cup {Present(l) : l \in FileLists(MaxFiles)},
   format : Formats \cup {NoValue},
   language : {NoValue, "python"}]

\* What the file holds when a read succeeds: a comment line, a line of code and
\* a comment block, and a comment block that is never closed.
FileTexts ==
  {<<"/", "/", "a">>,
   <<"x", NL, "/", "*", "b", NL, "c", "*", "/">>,
   <<"/", "*", "u">>}

\* The exceptions a collaborator may raise: an Error with a message, and a thrown
\* value that is no Error.
Exceptions ==
  {[isError |-> TRUE, text |-> "EACCES"], [isError |-> FALSE, text |-> "oops"]}

\* What processSingleFileContent may come back with: a text, a content that is no
\* string (a binary part), an error result, or a rejection.
ReadOutcomes ==
  {[kind |-> "text", llmContent |-> t] : t \in FileTexts}
  \cup {[kind |-> "part"]}
  \cup {[kind |-> "error", llmContent |-> "Could not read file", returnDisplay |-> "",
         error |-> "File not found", errorType |-> "file_not_found"],
        [kind |-> "error", llmContent |-> "File too large", returnDisplay |-> "Too large",
         error |-> "File size exceeds limit", errorType |-> "file_too_large"]}
  \cup {[kind |-> "throw", exc |-> e] : e \in Exceptions}

NotReturned == [kind |-> "none"]

\* ------------------------------------------------------------ execute: steps

\* ExtractTool.validateToolParamValues: the error message, or null (NoValue) for
\* a request that has a non-empty `file` or a non-empty `files`.
ValidateToolParamValues(p) ==
  IF /\ (p.file = Absent \/ p.file[1] = <<>>)
     /\ (p.files = Absent \/ Len(p.files[1]) = 0)
  THEN "Either 'file' or 'files' parameter must be specified"
  ELSE NoValue

\* this.params.files || (this.params.file ? [this.params.file] : [])
RequestedFiles(p) ==
  IF p.files # Absent THEN p.files[1]
  ELSE IF p.file # Absent /\ p.file[1] # <<>> THEN <<p.file[1]>> ELSE <<>>

\* The check with the comparison turned (files.length < 0): never true (a mutant).
NoFilesSpecifiedNever(fs) == Len(fs) < 0

\* files.length === 0
NoFilesSpecified(fs) == Len(fs) = 0

ErrorResult(llmContent, returnDisplay, message, type) ==
  [kind |-> "error", llmContent |-> llmContent, returnDisplay |-> returnDisplay,
   error |-> [message |-> message, type |-> type]]

NoFilesResult ==
  ErrorResult("No files specified for extraction", "No files specified",
              "No files specified for extraction", INVALID_TOOL_PARAMS)

NotInWorkspaceMessage(file) == <<"File path \"", file, "\" is not within workspace">>

NotInWorkspaceResult(file) ==
  ErrorResult(NotInWorkspaceMessage(file), "File not in workspace",
              NotInWorkspaceMessage(file), PATH_NOT_IN_WORKSPACE)

\* A read error reported under the catch clause's kind instead of the reader's
\* (a mutant).
ReadErrorResultAsUnknown(result) ==
  ErrorResult(result.llmContent,
              IF result.returnDisplay # "" THEN result.returnDisplay
              ELSE "Error reading file",
              result.error, UNKNOWN)

\* The result returned for a read that came back with an error.
ReadErrorResult(result) ==
  ErrorResult(result.llmContent,
              IF result.returnDisplay # "" THEN result.returnDisplay
              ELSE "Error reading file",
              result.error, result.errorType)

\* error instanceof Error ? error.message : String(error)
ErrorMessage(exc) == exc.text

\* The result the catch clause returns.
CatchResult(exc) ==
  LET rawError == <<"Error during extraction: ", ErrorMessage(exc)>>
  IN ErrorResult(rawError, "Error during extraction", rawError, UNKNOWN)

SuccessResult(output, type, n) ==
  [kind |-> "success", llmContent |-> output,
   returnDisplay |-> <<"Extracted ", type, " from ", n, " file(s)">>]

\* typeof result.llmContent === 'string' ? result.llmContent : ''
ContentOf(result) == IF result.kind = "text" THEN result.llmContent ELSE <<>>

\* The switch over this.params.type.
ExtractByType(type, content, language) ==
  CASE type = "comments" -> ExtractComments(content, language)
    [] type = "functions" -> ExtractFunctions(content, language)
    [] type = "classes" -> ExtractClasses(content, language)
    [] type = "imports" -> ExtractImports(content, language)
    [] type = "variables" -> ExtractVariables(content, language)
    [] type = "types" -> ExtractTypes(content, language)
    [] OTHER -> <<>>

\* The try block closed before the formatting (a mutant).
InTryWithoutFormat(site) == site \in {"validate", "read"}

\* The places of execute where a collaborator is called, all inside its try block.
InTry(site) == site \in {"validate", "read", "format"}

\* The loop checking signal.aborted before each read (a mutant).
StopsOnAbortObserved(sig) == sig

\* Whether the loop over resolvedFiles stops for an aborted signal: execute never
\* reads its _signal parameter.
StopsOnAbort(sig) == FALSE

\* The read not awaited: the loop goes on while it is outstanding (a mutant).
AtLoopHeadOrAwaiting(p) == p \in {"read", "await"}

\* Where the loop over resolvedFiles stands: a read starts only at the loop head,
\* never while the awaited read is outstanding.
AtLoopHead(p) == p = "read"

\* results.unshift instead of results.push (a mutant).
PushResultFront(rs, r) == <<r>> \o rs

\* results.push({ filePath, elements })
PushResult(rs, r) == Append(rs, r)

\* The validation loop left after its first file (a mutant).
ValidationCompleteAfterFirst(nResolved, nFiles) == nResolved >= 1

\* Whether the loop over `files` that resolves and validates has taken every file.
ValidationComplete(nResolved, nFiles) == nResolved >= nFiles

\* An exception raised at `site`: the catch clause turns it into the result.
Raise(exc, site) ==
  /\ excLog' = Append(excLog, [site |-> site, exc |-> exc])
  /\ pc' = "done"
  /\ IF InTry(site)
     THEN ret' = CatchResult(exc) /\ escaped' = escaped
     ELSE ret' = ret /\ escaped' = TRUE

\* Lines 613-625: the files of the request; none is an error.
Start ==
  /\ pc = "start"
  /\ files' = RequestedFiles(params)
  /\ IF NoFilesSpecified(files')
     THEN pc' = "done" /\ ret' = NoFilesResult
     ELSE pc' = "validate" /\ ret' = ret
  /\ UNCHANGED <<params, aborted, resolvedFiles, results, escaped, wsLog, wsVerdicts,
                 readLog, readOutcome, pending, langLog, fmtLog, abortedAtRead, excLog,
                 fnArg, fnOut>>

\* Lines 628-644: one turn of the loop that resolves and validates the paths.
ValidateLoop ==
  /\ pc = "validate"
  /\ \/ /\ ValidationComplete(Len(resolvedFiles), Len(files))
        /\ pc' = "read"
        /\ UNCHANGED <<resolvedFiles, ret, escaped, wsLog, wsVerdicts, excLog>>
     \/ /\ ~ValidationComplete(Len(resolvedFiles), Len(files))
        /\ LET file == files[Len(resolvedFiles) + 1]
               absolutePath == Resolve(TargetDir, file)
               within == IsPathWithinWorkspace(absolutePath)
           IN /\ wsLog' = Append(wsLog, absolutePath)
              /\ wsVerdicts' = Append(wsVerdicts, within)
              /\ IF within
                 THEN /\ resolvedFiles' = Append(resolvedFiles, absolutePath)
                      /\ UNCHANGED <<pc, ret>>
                 ELSE /\ pc' = "done"
                      /\ ret' = NotInWorkspaceResult(file)
                      /\ UNCHANGED resolvedFiles
        /\ UNCHANGED <<escaped, excLog>>
     \/ /\ ~ValidationComplete(Len(resolvedFiles), Len(files))
        /\ \E e \in Exceptions : Raise(e, "validate")
        /\ UNCHANGED <<resolvedFiles, wsLog, wsVerdicts>>
  /\ UNCHANGED <<params, aborted, files, results, readLog, readOutcome, pending,
                 langLog, fmtLog, abortedAtRead, fnArg, fnOut>>

\* Lines 650-656: the head of the loop over resolvedFiles, which either ends the
\* loop or calls processSingleFileContent and awaits it.
ReadLoop ==
  /\ AtLoopHead(pc)
  /\ ~StopsOnAbort(aborted)
  /\ \/ /\ Len(results) >= Len(resolvedFiles)
        /\ pc' = "format"
        /\ UNCHANGED <<readLog, pending, abortedAtRead>>
     \/ /\ Len(results) < Len(resolvedFiles)
        /\ readLog' = Append(readLog, resolvedFiles[Len(results) + 1])
        /\ abortedAtRead' = Append(abortedAtRead, aborted)
        /\ pending' = pending + 1
        /\ pc' = "await"
  /\ UNCHANGED <<params, aborted, files, resolvedFiles, results, ret, escaped, wsLog,
                 wsVerdicts, readOutcome, langLog, fmtLog, excLog, fnArg, fnOut>>

\* Lines 658-701: the awaited read comes back; an error result is returned as it
\* is, a content is extracted and pushed.
ReadDone ==
  /\ pc = "await"
  /\ \E result \in ReadOutcomes :
       /\ readOutcome' = Append(readOutcome, result)
       /\ pending' = pending - 1
       /\ \/ /\ result.kind = "throw"
             /\ Raise(result.exc, "read")
             /\ UNCHANGED <<results, langLog>>
          \/ /\ result.kind = "error"
             /\ pc' = "done"
             /\ ret' = ReadErrorResult(result)
             /\ UNCHANGED <<results, langLog, escaped, excLog>>
          \/ /\ result.kind \in {"text", "part"}
             /\ LET filePath == readLog[Len(readOutcome) + 1]
                    content == ContentOf(result)
                    language == PickLanguage(params.language, filePath)
                    elements == ExtractByType(params.type, content, language)
                IN /\ langLog' = Append(langLog, language)
                   /\ results' = PushResult(results,
                                   [filePath |-> filePath, elements |-> elements])
             /\ pc' = "read"
             /\ UNCHANGED <<ret, escaped, excLog>>
  /\ UNCHANGED <<params, aborted, files, resolvedFiles, wsLog, wsVerdicts, readLog,
                 fmtLog, abortedAtRead, fnArg, fnOut>>

\* Lines 705-727: the output is formatted, once, and returned.
FormatAndReturn ==
  /\ pc = "format"
  /\ fmtLog' = Append(fmtLog, results)
  /\ \/ /\ pc' = "done"
        /\ ret' = SuccessResult(FormatOutput(params.format, results), params.type,
                                Len(resolvedFiles))
        /\ UNCHANGED <<escaped, excLog>>
     \/ /\ params.format # "json"
        /\ \E e \in Exceptions : Raise(e, "format")
  /\ UNCHANGED <<params, aborted, files, resolvedFiles, results, wsLog, wsVerdicts,
                 readLog, readOutcome, pending, langLog, abortedAtRead, fnArg, fnOut>>

\* The caller aborts the signal, at any time before execute has returned.
Abort ==
  /\ pc # "done"
  /\ ~aborted
  /\ aborted' = TRUE
  /\ UNCHANGED <<params, pc, files, resolvedFiles, results, ret, escaped, wsLog,
                 wsVerdicts, readLog, readOutcome, pending, langLog, fmtLog,
                 abortedAtRead, excLog, fnArg, fnOut>>

ExecInit ==
  /\ params \in Requests
  /\ aborted = FALSE
  /\ pc = "start"
  /\ files = <<>>
  /\ resolvedFiles = <<>>
  /\ results = <<>>
  /\ ret = NotReturned
  /\ escaped = FALSE
  /\ wsLog = <<>>
  /\ wsVerdicts = <<>>
  /\ readLog = <<>>
  /\ readOutcome = <<>>
  /\ pending = 0
  /\ langLog = <<>>
  /\ fmtLog = <<>>
  /\ abortedAtRead = <<>>
  /\ excLog = <<>>

\* The harness of the pure functions, at rest.
FnIdle == fnArg = Absent /\ fnOut = Absent

\* execute at rest, while a pure function is applied on its own.
ExecIdle ==
  /\ params = Absent
  /\ aborted = FALSE
  /\ pc = "idle"
  /\ files = <<>>
  /\ resolvedFiles = <<>>
  /\ results = <<>>
  /\ ret = NotReturned
  /\ escaped = FALSE
  /\ wsLog = <<>>
  /\ wsVerdicts = <<>>
  /\ readLog = <<>>
  /\ readOutcome = <<>>
  /\ pending = 0
  /\ langLog = <<>>
  /\ fmtLog = <<>>
  /\ abortedAtRead = <<>>
  /\ excLog = <<>>

Init == ExecInit /\ FnIdle

Next == Start \/ ValidateLoop \/ ReadLoop \/ ReadDone \/ FormatAndReturn \/ Abort

Spec == Init /\ [][Next]_vars

\* ------------------------------------------------------------ the language of a file

F_JS == <<"a", ".", "j", "s">>
F_JSX == <<"a", ".", "j", "s", "x">>
F_TS == <<"a", ".", "t", "s">>
F_TSX == <<"a", ".", "t", "s", "x">>
F_PY == <<"a", ".", "p", "y">>
F_JAVA == <<"a", ".", "j", "a", "v", "a">>
F_GO == <<"a", ".", "g", "o">>
F_JS_UP == <<"A", ".", "J", "S">>
F_TSX_MIX == <<"a", ".", "T", "s", "X">>
F_PY_UP == <<"a", ".", "P", "Y">>
F_JAVA_UP == <<"a", ".", "J", "A", "V", "A">>
F_GO_MIX == <<"d", "/", "a", ".", "G", "o">>
F_TXT == <<"a", ".", "t", "x", "t">>
F_NONE == <<"a">>
F_DOTFILE == <<".", "p", "y">>
F_TWO_EXT == <<"a", ".", "j", "s", ".", "g", "o">>
F_EXT_THEN_TXT == <<"a", ".", "p", "y", ".", "t", "x", "t">>
F_DOT_END == <<"a", ".", "t", "s", ".">>
F_DIR_EXT == <<"d", ".", "p", "y", "/", "a">>
F_PREFIX == <<"a", ".", "j", "s", "o", "n">>

LangFileNames ==
  {F_JS, F_JSX, F_TS, F_TSX, F_PY, F_JAVA, F_GO, F_JS_UP, F_TSX_MIX, F_PY_UP,
   F_JAVA_UP, F_GO_MIX, F_TXT, F_NONE, F_DOTFILE, F_TWO_EXT, F_EXT_THEN_TXT,
   F_DOT_END, F_DIR_EXT, F_PREFIX}

\* A `language` parameter (set or not) and a file name.
LangInputs == [language : {NoValue} \cup Languages, file : LangFileNames]

LangInit == fnArg \in {Present(a) : a \in LangInputs} /\ fnOut = Absent /\ ExecIdle

\* Lines 630 and 672-674: the language execute hands to the extractor for the file.
LanguageApply ==
  /\ fnOut = Absent
  /\ fnOut' = Present(PickLanguage(fnArg[1].language,
                                   Resolve(TargetDir, fnArg[1].file)))
  /\ UNCHANGED <<fnArg, execVars>>

SpecLang == LangInit /\ [][LanguageApply]_vars

\* ------------------------------------------------------------ comments of a text

\* The pieces a drawn source text is made of: a line of code, a comment line, a
\* comment after code, and comment blocks of one, two and three lines.
SegKinds == {"code", "single", "trailing", "block1", "block2", "block3"}

\* The comment markers of a language.
Markers(language) ==
  IF language = "python"
  THEN [single |-> HASH, open |-> TRIPLE_D, close |-> TRIPLE_D]
  ELSE [single |-> SLASHES, open |-> OPEN_C, close |-> CLOSE_C]

\* The lines of a piece.
SegLines(kind, m) ==
  CASE kind = "code" -> <<<<"x">>>>
    [] kind = "single" -> <<<<" ", " ">> \o m.single \o <<" ", "a", " ">>>>
    [] kind = "trailing" -> <<<<"x", " ">> \o m.single \o <<"b">>>>
    [] kind = "block1" -> <<m.open \o <<" ", "c", " ">> \o m.close>>
    [] kind = "block2" -> <<m.open \o <<" ", "d">>, <<" ", "e", " ">> \o m.close>>
    [] kind = "block3" -> <<<<" ">> \o m.open, <<" ", "*", " ", "f">>,
                            <<" ">> \o m.close>>

RECURSIVE RenderLines(_, _)
RenderLines(segs, m) ==
  IF segs = <<>> THEN <<>>
  ELSE SegLines(Head(segs), m) \o RenderLines(Tail(segs), m)

\* The source text of the pieces: its lines joined by line breaks.
Render(segs, language) == Join(RenderLines(segs, Markers(language)))

\* The sequences of at most n pieces.
RECURSIVE SegLists(_)
SegLists(n) ==
  IF n = 0 THEN {<<>>}
  ELSE LET shorter == SegLists(n - 1)
       IN shorter \cup {Append(l, k) : l \in {x \in shorter : Len(x) = n - 1},
                                        k \in SegKinds}

CommentInputs == [language : Languages, segs : SegLists(MaxSegs)]

CommentsInit ==
  fnArg \in {Present(a) : a \in CommentInputs} /\ fnOut = Absent /\ ExecIdle

\* extractComments applied to the drawn text.
CommentsApply ==
  /\ fnOut = Absent
  /\ fnOut' = Present(ExtractComments(Render(fnArg[1].segs, fnArg[1].language),
                                      fnArg[1].language))
  /\ UNCHANGED <<fnArg, execVars>>

SpecComments == CommentsInit /\ [][CommentsApply]_vars

\* ------------------------------------------------------------ an unterminated block

\* How a text may end in a comment block that is never closed: the opener and some
\* text on the last line, or the opener followed by one more line.
OpenTails == {"open1", "open2"}

\* The lines of such an ending.
TailLines(kind, m) ==
  CASE kind = "open1" -> <<m.open \o <<" ", "g">>>>
    [] kind = "open2" -> <<<<" ">> \o m.open \o <<" ", "g">>, <<" ", "h">>>>

\* The text of the pieces followed by the unterminated block.
RenderOpen(segs, tail, language) ==
  Join(RenderLines(segs, Markers(language)) \o TailLines(tail, Markers(language)))

OpenInputs == [language : Languages, segs : SegLists(MaxSegs), tail : OpenTails]

OpenInit ==
  fnArg \in {Present(a) : a \in OpenInputs} /\ fnOut = Absent /\ ExecIdle

\* extractComments applied to the drawn text that ends inside a block.
OpenApply ==
  /\ fnOut = Absent
  /\ fnOut' = Present(ExtractComments(
                 RenderOpen(fnArg[1].segs, fnArg[1].tail, fnArg[1].language),
                 fnArg[1].language))
  /\ UNCHANGED <<fnArg, execVars>>

SpecOpen == OpenInit /\ [][OpenApply]_vars

\* ------------------------------------------------------------ declarations of a text

\* The six extraction kinds.
AllKinds == {"comments", "functions", "classes", "imports", "variables", "types"}

\* Language tags for which no extractor has patterns.
UnknownTags == {"ruby", "Python", ""}

\* The lines the drawn texts are made of, per language: declarations of every
\* kind, lines that several patterns match, and lines that none matches.
SampleLines(language) ==
  CASE language = "javascript" ->
         {<<"f", "u", "n", "c", "t", "i", "o", "n", " ", "f", "o", "o", "(", "a", ")", " ", "{">>,
          <<"c", "o", "n", "s", "t", " ", "a", "d", "d", " ", "=", " ", "f", "u", "n", "c", "t", "i", "o", "n", "(", "a", ",", " ", "b", ")", " ", "{">>,
          <<"r", "e", "t", "u", "r", "n", " ", "f", "u", "n", "c", "t", "i", "o", "n", " ", "(", "x", ")", " ", "{">>,
          <<"c", "l", "a", "s", "s", " ", "D", "o", "g", " ", "e", "x", "t", "e", "n", "d", "s", " ", "A", "n", "i", "m", "a", "l", " ", "{">>,
          <<"c", "o", "n", "s", "t", " ", "C", "a", "t", " ", "=", " ", "c", "l", "a", "s", "s", " ", "{">>,
          <<"i", "m", "p", "o", "r", "t", " ", "R", "e", "a", "c", "t", " ", "f", "r", "o", "m", " ", "'", "r", "e", "a", "c", "t", "'", ";">>,
          <<"e", "x", "p", "o", "r", "t", " ", "{", " ", "C", "o", "m", "p", "o", "n", "e", "n", "t", " ", "}", ";">>}
    [] language = "typescript" ->
         {<<" ", " ", "c", "o", "n", "s", "t", " ", "m", "u", "l", " ", "=", " ", "(", "a", ")", " ", "=", ">", " ", "{">>,
          <<"e", "x", "p", "o", "r", "t", " ", "d", "e", "f", "a", "u", "l", "t", " ", "f", "u", "n", "c", "t", "i", "o", "n", " ", "A", "p", "p", "(", ")", " ", "{">>,
          <<"c", "l", "a", "s", "s", " ", "D", "o", "g", " ", "e", "x", "t", "e", "n", "d", "s", " ", "A", "n", "i", "m", "a", "l", " ", "{">>,
          <<"t", "y", "p", "e", " ", "I", "D", " ", "=", " ", "s", "t", "r", "i", "n", "g", ";">>,
          <<"/", "/", " ", "@", "p", "a", "r", "a", "m", " ", "{", "s", "t", "r", "i", "n", "g", "}", " ", "n", "a", "m", "e">>}
    [] language = "python" ->
         {<<"d", "e", "f", " ", "f", "o", "o", "(", "a", ")", ":">>,
          <<"c", "l", "a", "s", "s", " ", "F", "o", "o", "(", "B", "a", "s", "e", ")", ":">>,
          <<"i", "m", "p", "o", "r", "t", " ", "o", "s", ".", "p", "a", "t", "h">>,
          <<"f", "r", "o", "m", " ", "t", "y", "p", "i", "n", "g", " ", "i", "m", "p", "o", "r", "t", " ", "L", "i", "s", "t">>,
          <<"x", " ", "=", " ", "1">>,
          <<" ", " ", "y", " ", "=", " ", "2">>}
    [] language = "java" ->
         {<<"p", "u", "b", "l", "i", "c", " ", "c", "l", "a", "s", "s", " ", "F", "o", "o", " ", "{">>,
          <<"c", "l", "a", "s", "s", " ", "B", "a", "r", " ", "{">>,
          <<"p", "r", "i", "v", "a", "t", "e", " ", "s", "t", "a", "t", "i", "c", " ", "i", "n", "t", " ", "r", "u", "n", "(", "i", "n", "t", " ", "a", ")", " ", "{">>,
          <<"i", "m", "p", "o", "r", "t", " ", "j", "a", "v", "a", ".", "u", "t", "i", "l", ".", "*", ";">>,
          <<"f", "i", "n", "a", "l", " ", "i", "n", "t", " ", "x", " ", "=", " ", "1", ";">>,
          <<"i", "n", "t", "e", "r", "f", "a", "c", "e", " ", "S", "h", "a", "p", "e", " ", "{">>}
    [] language = "go" ->
         {<<"f", "u", "n", "c", " ", "m", "a", "i", "n", "(", ")", " ", "{">>,
          <<"t", "y", "p", "e", " ", "T", " ", "s", "t", "r", "u", "c", "t", " ", "{">>,
          <<"i", "m", "p", "o", "r", "t", " ", "\"", "f", "m", "t", "\"">>,
          <<"i", "m", "p", "o", "r", "t", " ", "(", "\"", "f", "m", "t", "\"", ")">>,
          <<"v", "a", "r", " ", "x", " ", "=", " ", "1">>,
          <<"y", " ", ":", "=", " ", "2">>}
    [] OTHER ->
         {<<"f", "u", "n", "c", "t", "i", "o", "n", " ", "f", "o", "o", "(", "a", ")", " ", "{">>,
          <<"c", "l", "a", "s", "s", " ", "F", "o", "o", "(", "B", "a", "s", "e", ")", ":">>,
          <<"/", "/", " ", "v", "a", "r", " ", "x", " ", "=", " ", "1", ";">>}

\* The sequences of at most n of the lines of `pool`.
RECURSIVE LineLists(_, _)
LineLists(pool, n) ==
  IF n = 0 THEN {<<>>}
  ELSE LET shorter == LineLists(pool, n - 1)
       IN shorter \cup {Append(l, x) : l \in {y \in shorter : Len(y) = n - 1},
                                        x \in pool}

\* An extraction kind, a language tag and the lines of a text.
LineInputs ==
  UNION {[kind : AllKinds, language : {lang}, lines : LineLists(SampleLines(lang), MaxLines)]
         : lang \in Languages \cup UnknownTags}

LinesInit ==
  fnArg \in {Present(a) : a \in LineInputs} /\ fnOut = Absent /\ ExecIdle

\* The extractor of the drawn kind applied to the drawn text.
LinesApply ==
  /\ fnOut = Absent
  /\ fnOut' = Present(ExtractByType(fnArg[1].kind, Join(fnArg[1].lines),
                                    fnArg[1].language))
  /\ UNCHANGED <<fnArg, execVars>>

SpecLines == LinesInit /\ [][LinesApply]_vars

\* ------------------------------------------------------------ the scan, line by line

\* The lines the scanned texts are made of, for the comment markers m of a
\* language: code, a comment line, lines that open and that close a block, a line
\* inside one, and lines that carry several markers.
ScanForms(m) ==
  {<<"x">>,
   m.single \o <<" ", "a">>,
   m.open \o <<" ", "g">>,
   <<" ", "h", " ">> \o m.close,
   <<" ", "*", " ", "f">>,
   m.open \o <<" ", "c", " ">> \o m.close,
   m.single \o <<" ", "n", " ">> \o m.open,
   <<"e", " ">> \o m.close \o <<" ">> \o m.single \o <<" ", "k">>,
   <<"e", " ">> \o m.close \o <<" ">> \o m.open \o <<" ", "m">>}

ScanInputs ==
  UNION {[language : {lang}, lines : LineLists(ScanForms(Markers(lang)), MaxScan)]
         : lang \in Languages}

\* extractComments entered: no line scanned yet (i lines are scanned, st are the
\* loop variables, was their values before the last line scanned).
ScanStart ==
  /\ fnArg \in {Present(a) : a \in ScanInputs}
  /\ fnOut = Present([i |-> 0, st |-> ScanInit, was |-> ScanInit])
  /\ ExecIdle

\* Lines 143-193: one iteration of the loop of extractComments.
ScanStep ==
  /\ fnOut[1].i < Len(fnArg[1].lines)
  /\ fnOut' = Present([i |-> fnOut[1].i + 1,
                       st |-> ScanLine(fnOut[1].st, fnArg[1].lines[fnOut[1].i + 1],
                                       fnOut[1].i + 1,
                                       CommentPatterns(fnArg[1].language)),
                       was |-> fnOut[1].st])
  /\ UNCHANGED <<fnArg, execVars>>

SpecScan == ScanStart /\ [][ScanStep]_vars

\* ============================================================ claims

\* ------------------------------------------------------------ C1

\* C1: when execute is invoked on a request in which neither `file` nor `files` is
\* set, it returns the no-files-specified error (invalid tool parameters), and in
\* that run no workspace-membership check and no file read is attempted.
C1_NoFilesSpecified ==
  (pc # "start" /\ params.file = Absent /\ params.files = Absent) =>
    /\ pc = "done"
    /\ ret.kind = "error"
    /\ ret.error.type = INVALID_TOOL_PARAMS
    /\ ret.error.message = "No files specified for extraction"
    /\ ~escaped
    /\ wsLog = <<>>
    /\ readLog = <<>>

\* C1's case: a request with neither property has been answered.
C1_Witness ==
  /\ pc = "done"
  /\ params.file = Absent /\ params.files = Absent
  /\ ret.kind = "error"

\* ------------------------------------------------------------ C2

\* The positions of the request's files that lie outside the workspace: of the
\* names drawn, OUT_TS (../x.ts, seen from the workspace root) is the one.
OutsidePositions == {i \in 1..Len(files) : files[i] = OUT_TS}

\* C2: if a requested file, at any position of the list, resolves to a path outside
\* the workspace, no file of the request is ever read (the files before it
\* included), and execute returns a path-not-in-workspace error naming that file
\* (unless the workspace validator itself raised an exception first).
C2_NoReadBeforeScopeError ==
  OutsidePositions # {} =>
    /\ readLog = <<>>
    /\ pending = 0
    /\ pc \in {"validate", "done"}
    /\ (pc = "done" /\ excLog = <<>>) =>
         /\ ret.kind = "error"
         /\ ret.error.type = PATH_NOT_IN_WORKSPACE
         /\ ret.error.message = <<"File path \"", OUT_TS, "\" is not within workspace">>
         /\ Len(wsLog) \in OutsidePositions
         /\ \A i \in OutsidePositions : Len(wsLog) <= i

\* C2's case: the file outside the workspace is the second of the list, after a
\* file inside it, and execute has returned.
C2_Witness ==
  /\ pc = "done"
  /\ Len(files) >= 2
  /\ files[1] # OUT_TS
  /\ files[2] = OUT_TS
  /\ ret.kind = "error"
  /\ excLog = <<>>

\* ------------------------------------------------------------ C3

\* C3: if the read of the i-th file comes back with an error, execute ends at once
\* with an error result whose message and kind are the reader's; no later file is
\* read, the file is neither skipped nor read again, and the results of the files
\* before it are neither formatted nor returned.
C3_ReadErrorIsTerminal ==
  \A k \in 1..Len(readOutcome) :
    readOutcome[k].kind = "error" =>
      /\ pc = "done"
      /\ Len(readLog) = k
      /\ pending = 0
      /\ \A j \in 1..k : readLog[j] = resolvedFiles[j]
      /\ Len(results) = k - 1
      /\ fmtLog = <<>>
      /\ ret.kind = "error"
      /\ ret.error.message = readOutcome[k].error
      /\ ret.error.type = readOutcome[k].errorType
      /\ ret.llmContent = readOutcome[k].llmContent

\* C3's case: the second read failed after the first file was extracted.
C3_Witness ==
  /\ pc = "done"
  /\ Len(readOutcome) = 2
  /\ readOutcome[2].kind = "error"
  /\ Len(results) = 1

\* ------------------------------------------------------------ C4

\* C4: execute never throws or rejects: whatever the collaborators do, no exception
\* leaves execute; when it is done it has returned one result, a success or a
\* structured error (kind and message), and an exception raised during validation,
\* reading or formatting has become an error of kind `unknown` whose message wraps the
\* exception's message.
C4_NeverThrows ==
  /\ ~escaped
  /\ (pc = "done") <=> (ret.kind # "none")
  /\ ret.kind \in {"none", "success", "error"}
  /\ ret.kind = "error" => ret.error.type # NoValue /\ ret.error.message # NoValue
  /\ Len(excLog) <= 1
  /\ excLog # <<>> =>
       /\ pc = "done"
       /\ ret.kind = "error"
       /\ ret.error.type = UNKNOWN
       /\ ret.error.message = <<"Error during extraction: ", excLog[1].exc.text>>

\* C4's case: the formatter threw a value that is no Error, and execute returned.
C4_Witness ==
  /\ pc = "done"
  /\ excLog # <<>>
  /\ excLog[1].site = "format"
  /\ ~excLog[1].exc.isError
  /\ ret.kind = "error"

\* ------------------------------------------------------------ C5

\* C5: whenever execute succeeds, the collection handed to the formatter holds one
\* per-file result for each requested file, in the order of the request (a file
\* listed twice appears twice), and formatting happens once, after the last file
\* was extracted.
C5_OneResultPerFileInOrder ==
  /\ Len(fmtLog) <= 1
  /\ fmtLog # <<>> =>
       /\ pending = 0
       /\ Len(readOutcome) = Len(files)
       /\ Len(fmtLog[1]) = Len(files)
  /\ (pc = "done" /\ ret.kind = "success") =>
       /\ Len(fmtLog) = 1
       /\ \A k \in 1..Len(files) :
            /\ fmtLog[1][k].filePath = TargetDir \o <<SEP>> \o files[k]
            /\ fmtLog[1][k].elements =
                 ExtractByType(params.type, ContentOf(readOutcome[k]), langLog[k])

\* C5's case: a successful request for two different files.
C5_Witness ==
  /\ pc = "done"
  /\ ret.kind = "success"
  /\ Len(files) >= 2
  /\ files[1] # files[2]

\* ------------------------------------------------------------ C6

\* C6: files are read strictly in input order and without pipelining: the read of
\* the file at position k+1 starts only when the read of position k has come back
\* and its result has been pushed; at most one read is outstanding.
C6_NoPipelining ==
  /\ pending \in {0, 1}
  /\ Len(readLog) = Len(readOutcome) + pending
  /\ Len(readLog) <= Len(results) + 1
  /\ pending = 1 => Len(readLog) = Len(results) + 1
  /\ \A k \in 1..Len(readLog) :
       k <= Len(files) /\ readLog[k] = TargetDir \o <<SEP>> \o files[k]

\* C6's case: the second read is outstanding, the first file's result is pushed.
C6_Witness ==
  /\ Len(readLog) = 2
  /\ pending = 1
  /\ Len(results) = 1

\* ------------------------------------------------------------ C7

\* C7 as claimed: once the signal is aborted, execute starts no further read.
C7_AbortStopsReads ==
  \A k \in 1..Len(abortedAtRead) : ~abortedAtRead[k]

\* C7, amended: execute never consults the abort signal; with the signal aborted
\* the loop over the files still takes its next step, so the read of every further
\* file starts as it would without the abort.
C7_AbortIgnored ==
  (pc = "read" /\ aborted) => ENABLED ReadLoop

\* C7's case: a request was aborted before its second read, which started all the
\* same, and execute returned a success.
C7_Witness ==
  /\ pc = "done"
  /\ ret.kind = "success"
  /\ Len(abortedAtRead) = 2
  /\ abortedAtRead[2]

\* ------------------------------------------------------------ C8

\* The language tag of each drawn file name's extension, read off the name by hand:
\* the text from the last dot of the last path component, letter case ignored;
\* a name without a dot, a hidden file (a leading dot only), and an extension
\* outside the table have no tag.
C8_TagOfExtension(file) ==
  CASE file \in {F_JS, F_JSX, F_JS_UP} -> "javascript"
    [] file \in {F_TS, F_TSX, F_TSX_MIX} -> "typescript"
    [] file \in {F_PY, F_PY_UP} -> "python"
    [] file \in {F_JAVA, F_JAVA_UP} -> "java"
    [] file \in {F_GO, F_GO_MIX, F_TWO_EXT} -> "go"
    [] file \in {F_TXT, F_NONE, F_DOTFILE, F_EXT_THEN_TXT, F_DOT_END, F_DIR_EXT,
                 F_PREFIX} -> "unknown"

\* C8: the language handed to the extractor is the explicit `language` parameter
\* when one is given; otherwise the tag of the file's extension, compared without
\* regard to case; otherwise (another extension, or none) javascript. It is always
\* a language tag: an unknown extension is no error.
C8_LanguageChoice ==
  fnOut # Absent =>
    LET a == fnArg[1]
        tag == C8_TagOfExtension(a.file)
    IN /\ fnOut[1] \in Languages
       /\ fnOut[1] = (IF a.language # NoValue THEN a.language
                      ELSE IF tag # "unknown" THEN tag
                      ELSE "javascript")

\* C8's case: no explicit language, an upper-case .PY extension, python chosen.
C8_Witness ==
  /\ fnOut # Absent
  /\ fnArg[1].language = NoValue
  /\ fnArg[1].file = F_PY_UP
  /\ fnOut[1] = "python"

\* ------------------------------------------------------------ C9, C10

\* How many lines a piece has.
C9_SegLength(kind) ==
  CASE kind \in {"code", "single", "trailing", "block1"} -> 1
    [] kind = "block2" -> 2
    [] kind = "block3" -> 3

\* The comments the drawn text holds, by its construction: for each single-line
\* comment its line and its text, for each block its opening line and its lines.
RECURSIVE C9_Expected(_, _, _)
C9_Expected(segs, line, m) ==
  IF segs = <<>> THEN <<>>
  ELSE LET k == Head(segs)
           here ==
             CASE k = "code" -> <<>>
               [] k = "single" -> <<[type |-> "single-line-comment", line |-> line,
                                     content |-> <<"a">>, lines |-> SegLines(k, m)]>>
               [] k = "trailing" -> <<[type |-> "single-line-comment", line |-> line,
                                       content |-> <<"b">>, lines |-> SegLines(k, m)]>>
               [] OTHER -> <<[type |-> "multi-line-comment", line |-> line,
                              content |-> <<>>, lines |-> SegLines(k, m)]>>
       IN here \o C9_Expected(Tail(segs), line + C9_SegLength(k), m)

\* The positions of `out` whose element has this type and line.
C9_At(out, type, line) ==
  {i \in 1..Len(out) : out[i].type = type /\ out[i].line = line}

\* C9: for every supported language, extractComments applied to a text of N
\* well-formed single-line comments and M well-formed, non-nested comment blocks
\* returns N+M elements: one single-line-comment element per single-line comment,
\* with its line and its trimmed text, and one multi-line-comment element per block.
C9_OneElementPerComment ==
  fnOut # Absent =>
    LET out == fnOut[1]
        exp == C9_Expected(fnArg[1].segs, 1, Markers(fnArg[1].language))
    IN /\ Len(out) = Len(exp)
       /\ \A j \in 1..Len(exp) :
            LET at == C9_At(out, exp[j].type, exp[j].line)
            IN /\ Cardinality(at) = 1
               /\ exp[j].type = "single-line-comment" =>
                    \A i \in at : out[i].content = exp[j].content

\* The content C10 states for a block: the text after the opener on its opening
\* line, then every later line of the block, joined by line breaks.
C10_BlockContent(lines, m) ==
  Join(<<From(lines[1], IndexOf(lines[1], m.open) + Len(m.open))>> \o Tail(lines))

\* C10: for every supported language, a comment block whose opening and closing
\* delimiters lie on different lines is emitted as one multi-line-comment element,
\* whose line is the opener's and whose content is the text after the opener
\* followed by every later line up to and including the closing line.
C10_BlockSpansOpenToClose ==
  fnOut # Absent =>
    LET out == fnOut[1]
        m == Markers(fnArg[1].language)
        exp == C9_Expected(fnArg[1].segs, 1, m)
    IN \A j \in 1..Len(exp) :
         (exp[j].type = "multi-line-comment" /\ Len(exp[j].lines) >= 2) =>
           LET at == C9_At(out, "multi-line-comment", exp[j].line)
           IN /\ Cardinality(at) = 1
              /\ \A i \in at : out[i].content = C10_BlockContent(exp[j].lines, m)

\* ------------------------------------------------------------ C11

\* C11: for every supported language, a comment block that is still open when the
\* text ends produces no element (no partial element, no error): what
\* extractComments returns for a text that ends in an unterminated block is what
\* it returns for the text before that block.
C11_OpenBlockDropped ==
  fnOut # Absent =>
    fnOut[1] = ExtractComments(Render(fnArg[1].segs, fnArg[1].language),
                               fnArg[1].language)

\* ------------------------------------------------------------ C12

\* The pattern list an extraction kind has for a language (none for comments,
\* which are not extracted from a list of patterns).
C12_PatternsOf(kind, language) ==
  CASE kind = "functions" -> FunctionPatterns(language).list
    [] kind = "classes" -> ClassPatterns(language).list
    [] kind = "imports" -> ImportPatterns(language).list
    [] kind = "variables" -> VariablePatterns(language).list
    [] kind = "types" -> TypePatterns(language).list
    [] OTHER -> <<>>

\* The lines of the drawn text that a pattern of the drawn kind matches (for
\* variables: among the lines the extractor does not pass over).
C12_Matched(a) ==
  LET ps == C12_PatternsOf(a.kind, a.language)
  IN {i \in 1..Len(a.lines) :
        /\ a.kind = "variables" => i \notin SkippedLines(a.lines)
        /\ \E k \in 1..Len(ps) : MatchPattern(a.lines[i], ps[k]).ok}

\* The match of the first pattern of the list that matches the line.
C12_FirstMatch(line, ps) ==
  LET k == CHOOSE k \in 1..Len(ps) :
             /\ MatchPattern(line, ps[k]).ok
             /\ \A j \in 1..(k - 1) : ~MatchPattern(line, ps[j]).ok
  IN MatchPattern(line, ps[k]).g

\* The positions of `out` whose element is of line i.
C12_ElementsAt(out, i) == {j \in 1..Len(out) : out[j].line = i}

C13_Declared(line) ==
  CASE line = <<"c", "l", "a", "s", "s", " ", "D", "o", "g", " ", "e", "x", "t", "e", "n", "d", "s", " ", "A", "n", "i", "m", "a", "l", " ", "{">> -> Present(<<"D", "o", "g">>)
    [] line = <<"c", "l", "a", "s", "s", " ", "F", "o", "o", "(", "B", "a", "s", "e", ")", ":">> -> Present(<<"F", "o", "o">>)
    [] line = <<"p", "u", "b", "l", "i", "c", " ", "c", "l", "a", "s", "s", " ", "F", "o", "o", " ", "{">> -> Present(<<"F", "o", "o">>)
    [] line = <<"c", "l", "a", "s", "s", " ", "B", "a", "r", " ", "{">> -> Present(<<"B", "a", "r">>)
    [] OTHER -> Absent

\* C13: for javascript, typescript, python and java, extractClasses returns exactly
\* one element for each line that declares a named class (a java declaration
\* prefixed by `public` included), named by the declared identifier, and none for
\* `const Cat = class {`.
C13_ClassNamedAsDeclared ==
  (/\ fnOut # Absent
   /\ fnArg[1].kind = "classes"
   /\ fnArg[1].language \in {"javascript", "typescript", "python", "java"}) =>
    LET a == fnArg[1]
        out == fnOut[1]
    IN \A i \in 1..Len(a.lines) :
         LET at == {j \in 1..Len(out) : out[j].line = i}
             declared == C13_Declared(a.lines[i])
         IN IF declared = Absent THEN at = {}
            ELSE /\ Cardinality(at) = 1
                 /\ \A j \in at : out[j].name = declared[1]

\* ------------------------------------------------------------ C14

C15_UnknownLanguageYieldsNothing ==
  (fnOut # Absent /\ fnArg[1].language \notin Languages) => fnOut[1] = <<>>

\* C15's case: the class extractor was given the tag `Python` (the switch is
\* case-sensitive) and a text holding a python class declaration.
C15_Witness ==
  /\ fnOut # Absent
  /\ fnArg[1].kind = "classes"
  /\ fnArg[1].language = "Python"
  /\ fnArg[1].lines = <<<<"c", "l", "a", "s", "s", " ", "F", "o", "o", "(", "B", "a", "s", "e", ")", ":">>>>
  /\ fnOut[1] = <<>>

\* ------------------------------------------------------------ C16

\* The element counts of the first k per-file results, added up.
RECURSIVE C16_Sum(_)
C16_Sum(k) == IF k = 0 THEN 0 ELSE C16_Sum(k - 1) + Len(results[k].elements)

\* C16: the output of a successful `summary` request starts with the line
\* `Total elements extracted: <sum>`, <sum> being the sum of the element counts of
\* all per-file results, and its only other non-empty lines are one
\* `<relative path>: <count> elements` line per file, in the order of the request,
\* <count> being that file's number of elements.
C16_SummaryTotals ==
  (pc = "done" /\ ret.kind = "success" /\ params.format = "summary") =>
    LET out == ret.llmContent
        body == SelectSeq(out, LAMBDA l : l # <<>>)
    IN /\ out[1] = <<"Total elements extracted: ", C16_Sum(Len(results))>>
       /\ Len(body) = Len(files) + 1
       /\ \A k \in 1..Len(files) :
            body[k + 1] = <<files[k], ": ", Len(results[k].elements), " elements">>

\* C16's case: a summary of two different files, the first with one element, the
\* second with none.
C16_Witness ==
  /\ pc = "done"
  /\ ret.kind = "success"
  /\ params.format = "summary"
  /\ Len(results) = 2
  /\ files[1] # files[2]
  /\ Len(results[1].elements) = 1
  /\ Len(results[2].elements) = 0

\* ------------------------------------------------------------ C17

\* C17: a request that validateToolParamValues accepts is never answered with the
\* no-files-specified error; when its `file` is set and its `files` is an empty
\* array, `file` is the file execute extracts.
C17_AcceptedIsProcessed ==
  (pc # "start" /\ ValidateToolParamValues(params) = NoValue) =>
    /\ ~(ret.kind = "error" /\ ret.error.type = INVALID_TOOL_PARAMS)
    /\ (params.file # Absent /\ params.files = Present(<<>>)) =>
         files = <<params.file[1]>>

\* ------------------------------------------------------------ C18

\* The name an extractor derives from the capture groups g of a match of `line`.
C18_NameFrom(kind, language, line, g) ==
  CASE kind = "functions" -> FunctionName(language, g)
    [] kind = "classes" -> ClassName(language, g)
    [] kind = "imports" -> ImportName(line, g)
    [] kind = "variables" -> VariableName(language, g)
    [] kind = "types" -> TypeName(line, g)

\* C18: in the function, class, import, variable and type extractors a line
\* contributes at most one element, and that element is named from the match of
\* the first pattern, in the order of the language's list, that matches the line,
\* also where a later pattern matches the line and would name it otherwise:
\* `from typing import List` is the python import `List` (the first pattern), not
\* `typing` (the second); `const add = function(a, b) {` is the function `add`.
C18_FirstPatternWins ==
  (fnOut # Absent /\ fnArg[1].kind # "comments") =>
    LET a == fnArg[1]
        out == fnOut[1]
        ps == C12_PatternsOf(a.kind, a.language)
    IN /\ \A i \in 1..Len(a.lines) :
            LET at == C12_ElementsAt(out, i)
            IN /\ Cardinality(at) <= 1
               /\ at # {} => i \in C12_Matched(a)
               /\ \A j \in at :
                    out[j].name = C18_NameFrom(a.kind, a.language, a.lines[i],
                                               C12_FirstMatch(a.lines[i], ps))
       /\ \A j \in 1..Len(out) :
            /\ (/\ a.kind = "imports" /\ a.language = "python"
                /\ a.lines[out[j].line] = <<"f", "r", "o", "m", " ", "t", "y", "p", "i", "n", "g", " ", "i", "m", "p", "o", "r", "t", " ", "L", "i", "s", "t">>) =>
                 out[j].name = <<"L", "i", "s", "t">>
            /\ (/\ a.kind = "functions" /\ a.language = "javascript"
                /\ a.lines[out[j].line] = <<"c", "o", "n", "s", "t", " ", "a", "d", "d", " ", "=", " ", "f", "u", "n", "c", "t", "i", "o", "n", "(", "a", ",", " ", "b", ")", " ", "{">>) =>
                 out[j].name = <<"a", "d", "d">>

\* C18's case: the python import extractor applied to a line that both of its
\* patterns match, which it names by the first.
C18_Witness ==
  /\ fnOut # Absent
  /\ fnArg[1].kind = "imports"
  /\ fnArg[1].language = "python"
  /\ fnArg[1].lines = <<<<"i", "m", "p", "o", "r", "t", " ", "o", "s", ".", "p", "a", "t", "h">>, <<"f", "r", "o", "m", " ", "t", "y", "p", "i", "n", "g", " ", "i", "m", "p", "o", "r", "t", " ", "L", "i", "s", "t">>>>
  /\ Len(fnOut[1]) = 2
  /\ fnOut[1][2].name = <<"L", "i", "s", "t">>
  /\ MatchPattern(fnArg[1].lines[2], ImportPatterns("python").list[2]).ok

\* ------------------------------------------------------------ C19

C20_NothingElseWhileOpen ==
  (fnOut[1].i >= 1 /\ fnOut[1].was.inMultiLineComment) =>
    LET st == fnOut[1].st
        was == fnOut[1].was
        line == fnArg[1].lines[fnOut[1].i]
        closes == IndexOf(line, Markers(fnArg[1].language).close) # 0
    IN /\ st.multiLineStartLine = was.multiLineStartLine
       /\ st.inMultiLineComment = ~closes
       /\ IF closes
          THEN /\ Len(st.comments) = Len(was.comments) + 1
               /\ SubSeq(st.comments, 1, Len(was.comments)) = was.comments
               /\ st.comments[Len(st.comments)].type = "multi-line-comment"
               /\ st.comments[Len(st.comments)].line = was.multiLineStartLine
          ELSE st.comments = was.comments

\* C20's case: inside a block, a line that closes it and then carries a
\* single-line marker has just been scanned, after a line inside the block that
\* starts with a single-line marker and ends with an opener.
C20_Witness ==
  /\ fnArg[1].language = "go"
  /\ fnOut[1].i = 3
  /\ fnOut[1].was.inMultiLineComment
  /\ fnArg[1].lines[2] = <<"/", "/", " ", "n", " ", "/", "*">>
  /\ fnArg[1].lines[3] = <<"e", " ", "*", "/", " ", "/", "/", " ", "k">>
  /\ Len(fnOut[1].st.comments) = 1

====
